---- MODULE Spec2Model ----
(***************************************************************************)
(* Randomized incremental construction of a trapezoidal map T and of its   *)
(* search structure D (a DAG), and point-location queries on D.            *)
(*                                                                         *)
(* Objects of the program (trapezoids, DAG nodes) live in two heaps, traps *)
(* and nodes; a reference is an index into the heap and None is 0.         *)
(* Points and segments are immutable; the program compares them with the   *)
(* default object comparison (identity), so a point carries, next to its   *)
(* coordinates, the tag "o" of the object it is: two points are the same   *)
(* object exactly when the records are equal.                              *)
(*                                                                         *)
(* A coordinate is a number x + ex*eps, where eps stands for the positive  *)
(* displacement follow_segment adds to a left endpoint that is already     *)
(* present (epsilon = 0.0000001 in the source, smaller than any distance   *)
(* between features of the integer inputs used here).  Comparisons are     *)
(* made on x first and on ex when the x parts tie.                         *)
(***************************************************************************)
EXTENDS Integers, Sequences, FiniteSets, TLC

\* Largest number of segments of an input subdivision.
MaxSegs == 3

\* How far outside the bounding box query points are taken.
QMargin == 1

\* The margin added by bounding_box on every side.
Margin == 1

\* The coordinates the endpoints of the input segments are drawn from.
Endpoints == {<<0, 0>>, <<6, 0>>, <<2, 2>>, <<4, 2>>, <<0, 2>>}

None == 0

VARIABLES
    segments,     \* Subdivision.segments: the set of input Segment objects
    pending,      \* the segments of the shuffled list not yet inserted
    traps,        \* heap of Trapezoid objects
    nodes,        \* heap of Node objects (XNode, YNode, LeafNode)
    trapezoids,   \* TrapezoidalMap.trapezoids: set of references into traps
    root,         \* SearchStructure.root: reference into nodes
    pc,           \* position in Subdivision.trapezoidal_map / the caller
    cur,          \* segments[i] of the running iteration
    deltas,       \* the list follow_segment returned
    new_ts,       \* the NewTrapezoids container of the running update
    err,          \* the exception that ended construction, or "none"
    qpt,          \* the point of the last query
    face          \* the result of the last query (None when it failed)

vars == <<segments, pending, traps, nodes, trapezoids, root, pc, cur, deltas,
          new_ts, err, qpt, face>>

----------------------------------------------------------------------------
\* geometry.py

\* Point(x, y): an exact point that is the object tagged o.
Point(x, y, o) == [x |-> x, ex |-> 0, y |-> y, ey |-> 0, o |-> o]

\* Point.lies_left: self.x < p.x
lies_left(self, p) ==
    \/ self.x < p.x
    \/ self.x = p.x /\ self.ex < p.ex

\* The cross product of Point.lies_above, as the pair <<value, eps part>>.
CrossProduct(self, s) ==
    LET v1x == s.q.x - s.p.x
        v1y == s.q.y - s.p.y
        v1xe == s.q.ex - s.p.ex
        v1ye == s.q.ey - s.p.ey
        v2x == s.q.x - self.x
        v2y == s.q.y - self.y
        v2xe == s.q.ex - self.ex
        v2ye == s.q.ey - self.ey
    IN  << (v1x * v2y) - (v1y * v2x),
           (v1x * v2ye) + (v1xe * v2y) - (v1y * v2xe) - (v1ye * v2x) >>

\* Point.lies_above: xp <= 0
lies_above(self, s) ==
    LET xp == CrossProduct(self, s)
    IN  \/ xp[1] < 0
        \/ xp[1] = 0 /\ xp[2] <= 0

\* Segment.__init__: the endpoints ordered from left to right.
Segment(p1, p2) ==
    IF p1.x < p2.x THEN [p |-> p1, q |-> p2] ELSE [p |-> p2, q |-> p1]

\* Trapezoid.__init__: appends the trapezoid and its LeafNode to the heaps;
\* the new trapezoid is Len(result.traps).
Trapezoid(w, top, bottom, leftp, rightp) ==
    LET t == Len(w.traps) + 1
        n == Len(w.nodes) + 1
    IN  [traps |-> Append(w.traps,
                     [top |-> top, bottom |-> bottom, leftp |-> leftp,
                      rightp |-> rightp, uln |-> None, lln |-> None,
                      urn |-> None, lrn |-> None, leaf |-> n]),
         nodes |-> Append(w.nodes,
                     [kind |-> "leaf", val |-> t, left_child |-> None,
                      right_child |-> None, parents |-> {}])]

\* The reference of the object allocated last.
LastTrap(w) == Len(w.traps)
LastNode(w) == Len(w.nodes)

\* Trapezoid.set_neighbors: the four slots of self, then the back-pointers,
\* in the order of the source.
set_neighbors(w, self, uln, lln, urn, lrn) ==
    LET t0 == [w.traps EXCEPT ![self].uln = uln, ![self].lln = lln,
                              ![self].urn = urn, ![self].lrn = lrn]
        t1 == IF uln # None THEN [t0 EXCEPT ![uln].urn = self] ELSE t0
        t2 == IF lln # None THEN [t1 EXCEPT ![lln].lrn = self] ELSE t1
        t3 == IF urn # None THEN [t2 EXCEPT ![urn].uln = self] ELSE t2
        t4 == IF lrn # None THEN [t3 EXCEPT ![lrn].lln = self] ELSE t3
    IN  [w EXCEPT !.traps = t4]

----------------------------------------------------------------------------
\* nodes.py

\* The value a call yields when it raised an exception instead of returning.
Raised == -1

\* XNode.__init__ and YNode.__init__ (Node.__init__: no parents, no children).
XNode(w, point) ==
    [w EXCEPT !.nodes = Append(@, [kind |-> "x", val |-> point,
                                   left_child |-> None, right_child |-> None,
                                   parents |-> {}])]

YNode(w, segment) ==
    [w EXCEPT !.nodes = Append(@, [kind |-> "y", val |-> segment,
                                   left_child |-> None, right_child |-> None,
                                   parents |-> {}])]

\* Node.add_parent
add_parent(w, self, parent) ==
    [w EXCEPT !.nodes[self].parents = @ \cup {parent}]

\* Node.set_left_child
set_left_child(w, self, child) ==
    LET w1 == [w EXCEPT !.nodes[self].left_child = child]
    IN  IF child # None THEN add_parent(w1, child, self) ELSE w1

\* A faulty Node.set_right_child: the child records its parent, but the
\* parent's right edge is never assigned.
set_right_child_Unlinked(w, self, child) ==
    IF child # None THEN add_parent(w, child, self) ELSE w

\* Node.set_right_child
set_right_child(w, self, child) ==
    LET w1 == [w EXCEPT !.nodes[self].right_child = child]
    IN  IF child # None THEN add_parent(w1, child, self) ELSE w1

\* A faulty loop body of Node.replace_leaf: only the left child slot of the
\* parent is examined.
ReplaceInParent_LeftOnly(w, self, old, parent) ==
    IF old = w.nodes[parent].left_child
    THEN set_left_child(w, parent, self) ELSE w

\* The body of the loop of Node.replace_leaf for one parent.
ReplaceInParent(w, self, old, parent) ==
    LET w1 == IF old = w.nodes[parent].left_child
              THEN set_left_child(w, parent, self) ELSE w
    IN  IF old = w1.nodes[parent].right_child
        THEN set_right_child(w1, parent, self) ELSE w1

RECURSIVE ReplaceInParents(_, _, _, _)
ReplaceInParents(w, self, old, ps) ==
    IF ps = {} THEN w
    ELSE LET parent == CHOOSE x \in ps : TRUE
         IN  ReplaceInParents(ReplaceInParent(w, self, old, parent), self, old,
                              ps \ {parent})

\* Node.replace_leaf: every parent of old is visited once.
replace_leaf(w, self, old) ==
    ReplaceInParents(w, self, old, w.nodes[old].parents)

\* Node.traverse: the node the traversal stops at; Raised when the next node
\* is None (nnext.traverse raises AttributeError).
RECURSIVE traverse(_, _, _)
traverse(w, self, q) ==
    LET n == w.nodes[self]
        nnext ==
            IF n.kind = "x"
            THEN IF lies_left(q, n.val) THEN n.left_child ELSE n.right_child
            ELSE IF lies_above(q, n.val) THEN n.left_child ELSE n.right_child
    IN  IF n.kind = "leaf" THEN self
        ELSE IF n.kind = "x" /\ q.x = n.val.x /\ q.ex = n.val.ex
                             /\ q.y = n.val.y /\ q.ey = n.val.ey
        THEN self
        ELSE IF n.kind = "y" /\ q.x = n.val.p.x /\ q.ex = n.val.p.ex
                             /\ q.y = n.val.p.y /\ q.ey = n.val.p.ey
        THEN self
        ELSE IF nnext = None THEN Raised
        ELSE traverse(w, nnext, q)

----------------------------------------------------------------------------
\* util.py

\* The two statements of split_trapezoids that create one part:
\* Trapezoid(top, bottom, leftp, rightp), then set_neighbors on it.
SplitPart(w, top, bottom, leftp, rightp, uln, lln, urn, lrn) ==
    set_neighbors(Trapezoid(w, top, bottom, leftp, rightp),
                  LastTrap(w) + 1, uln, lln, urn, lrn)

\* upper.append and lower.append of the trapezoid created last in w1.
AppendUpper(st, w1) ==
    [w |-> w1, upper |-> Append(st.upper, LastTrap(w1)), lower |-> st.lower]

AppendLower(st, w1) ==
    [w |-> w1, upper |-> st.upper, lower |-> Append(st.lower, LastTrap(w1))]

\* The leftmost trapezoids of split_trapezoids: the parts of deltas[0] keep
\* its right neighbours only.
SplitLeftmost(st, s, t) ==
    LET d == st.w.traps[t]
        up == AppendUpper(st, SplitPart(st.w, d.top, s, s.p, d.rightp,
                                        None, None, d.urn, None))
        e == up.w.traps[t]
    IN  AppendLower(up, SplitPart(up.w, s, e.bottom, s.p, e.rightp,
                                  None, None, None, e.lrn))

\* The loop of split_trapezoids over the intermediate trapezoids
\* deltas[i], ..., deltas[len(deltas) - 2] (lists are indexed from 1 here).
RECURSIVE SplitIntermediate(_, _, _, _)
SplitIntermediate(st, s, ds, i) ==
    IF i > Len(ds) - 1 THEN st
    ELSE LET curr == st.w.traps[ds[i]]
             up == AppendUpper(st, SplitPart(st.w, curr.top, s, curr.leftp,
                                             curr.rightp, curr.uln, None,
                                             curr.urn, None))
             e == up.w.traps[ds[i]]
         IN  SplitIntermediate(
                 AppendLower(up, SplitPart(up.w, s, e.bottom, e.leftp,
                                           e.rightp, None, e.lln, None,
                                           e.lrn)),
                 s, ds, i + 1)

\* The rightmost trapezoids of split_trapezoids: the parts of deltas[-1]
\* keep its left neighbours only.
SplitRightmost(st, s, t) ==
    LET d == st.w.traps[t]
        up == AppendUpper(st, SplitPart(st.w, d.top, s, d.leftp, s.q,
                                        d.uln, None, None, None))
        e == up.w.traps[t]
    IN  AppendLower(up, SplitPart(up.w, s, e.bottom, e.leftp, s.q,
                                  None, e.lln, None, None))

\* split_trapezoids: [w, upper, lower], the heaps afterwards and the lists
\* of the upper and of the lower parts.
split_trapezoids(w, s, ds) ==
    SplitRightmost(
        SplitIntermediate(
            SplitLeftmost([w |-> w, upper |-> <<>>, lower |-> <<>>], s,
                          ds[1]),
            s, ds, 2),
        s, ds[Len(ds)])

\* A scan that never extends a run: every part is a run of its own.
MergeScan_NoRun(w, parts, i, j) == IF j = i THEN j + 1 ELSE j

\* The inner loop of merge_trapezoids: the first j at which the scan stops
\* (parts are indexed from 1, so the loop runs while j <= size).
RECURSIVE MergeScan(_, _, _, _)
MergeScan(w, parts, i, j) ==
    IF /\ i <= Len(parts) /\ j <= Len(parts)
       /\ w.traps[parts[j]].top = w.traps[parts[i]].top
       /\ w.traps[parts[j]].bottom = w.traps[parts[i]].bottom
    THEN MergeScan(w, parts, i, j + 1)
    ELSE j

\* The outer loop of merge_trapezoids from the state (i, j, res).
RECURSIVE MergeLoop(_, _, _, _)
MergeLoop(st, parts, i, j) ==
    IF ~(i <= Len(parts) /\ j <= Len(parts)) THEN st
    ELSE LET w0 == st.w
             j2 == MergeScan(w0, parts, i, j)
             rightp == IF j2 > j THEN w0.traps[parts[j2 - 1]].rightp
                       ELSE w0.traps[parts[i]].rightp
             w1 == Trapezoid(w0, w0.traps[parts[i]].top,
                             w0.traps[parts[i]].bottom,
                             w0.traps[parts[i]].leftp, rightp)
             merged == LastTrap(w1)
         IN  MergeLoop([w |-> w1,
                        res |-> st.res \o [k \in 1..(j2 - i) |-> merged]],
                       parts, j2, j2)

\* merge_trapezoids: [w, res], res[i] the destination of the i-th part.
merge_trapezoids(w, parts) ==
    MergeLoop([w |-> w, res |-> <<>>], parts, 1, 2)

\* The element of a list at a 0-based index, as the source indexes its lists.
At(list, k) == list[k + 1]

\* The inner loop of update_neighbors: k after the duplicates of curr.
RECURSIVE SkipDuplicates(_, _, _)
SkipDuplicates(m_list, curr, k) ==
    LET k1 == k + 1
        succ == IF k1 < Len(m_list) THEN At(m_list, k1) ELSE None
    IN  IF curr = succ THEN SkipDuplicates(m_list, curr, k1) ELSE k1

\* The outer loop of update_neighbors from index k (0-based).
RECURSIVE UpdateNeighborsLoop(_, _, _, _, _, _, _)
UpdateNeighborsLoop(w, s_list, m_list, first, last, above, k0) ==
    LET size == Len(m_list)
    IN  IF ~(k0 < size) THEN w
        ELSE LET old == w.traps[At(s_list, k0)]
                 curr == At(m_list, k0)
                 pred == IF k0 > 0 THEN At(m_list, k0 - 1) ELSE None
                 k == SkipDuplicates(m_list, curr, k0)
                 succ == IF k < size THEN At(m_list, k) ELSE None
                 uln == IF above THEN (IF k > 0 THEN old.uln ELSE first)
                        ELSE pred
                 lln == IF above THEN pred
                        ELSE (IF k > 0 THEN old.lln ELSE first)
                 urn == IF above THEN (IF k < size - 1 THEN old.urn ELSE last)
                        ELSE succ
                 lrn == IF above THEN succ
                        ELSE (IF k < size - 1 THEN old.lrn ELSE last)
             IN  UpdateNeighborsLoop(
                     set_neighbors(w, curr, uln, lln, urn, lrn),
                     s_list, m_list, first, last, above, k)

\* update_neighbors
update_neighbors(w, s_list, m_list, first, last, above) ==
    UpdateNeighborsLoop(w, s_list, m_list, first, last, above, 0)

----------------------------------------------------------------------------
\* structures.py: TrapezoidalMap

\* The displaced query point of follow_segment: p moved by epsilon along s.
\* m = (q.y - p.y) / (q.x - p.x); the displacement (epsilon, m * epsilon)
\* is (q.x - p.x, q.y - p.y) times the positive number epsilon / (q.x - p.x).
NudgedPoint(s) ==
    [x |-> s.p.x, ex |-> s.q.x - s.p.x, y |-> s.p.y, ey |-> s.q.y - s.p.y,
     o |-> -2]

\* The while loop of follow_segment that restarts the traversal from the
\* inner node it stopped at: the leaf reached, or the exception raised.
RECURSIVE RetryQuery(_, _, _)
RetryQuery(w, node, s) ==
    IF node = Raised THEN [node |-> None, err |-> "AttributeError"]
    ELSE IF w.nodes[node].kind = "leaf" THEN [node |-> node, err |-> "none"]
    ELSE IF s.q.x - s.p.x = 0
    THEN [node |-> None, err |-> "ZeroDivisionError"]
    ELSE RetryQuery(w, traverse(w, node, NudgedPoint(s)), s)

\* The neighbour walk of follow_segment from the list ds, whose last element
\* is curr.  The walk reads the heap and never writes it, so reaching a
\* trapezoid a second time means the loop of the source never ends.
RECURSIVE FollowWalk(_, _, _)
FollowWalk(w, s, ds) ==
    LET curr == ds[Len(ds)]
    IN  IF curr = None THEN [deltas |-> ds, err |-> "AttributeError"]
        ELSE IF ~lies_left(w.traps[curr].rightp, s.q)
        THEN [deltas |-> ds, err |-> "none"]
        ELSE LET nxt == IF lies_above(w.traps[curr].rightp, s)
                        THEN w.traps[curr].lrn ELSE w.traps[curr].urn
             IN  IF \E i \in 1..Len(ds) : ds[i] = nxt
                 THEN [deltas |-> Append(ds, nxt), err |-> "Diverges"]
                 ELSE FollowWalk(w, s, Append(ds, nxt))

\* TrapezoidalMap.follow_segment: [deltas, err].
follow_segment(w, rt, s) ==
    LET start == RetryQuery(w, traverse(w, rt, s.p), s)
    IN  IF start.err # "none" THEN [deltas |-> <<>>, err |-> start.err]
        ELSE FollowWalk(w, s, <<w.nodes[start.node].val>>)

\* The elements of a list.
Range(list) == {list[i] : i \in 1..Len(list)}

\* NewTrapezoids.__init__
NewTrapezoids(first, last, upper, lower) ==
    [first |-> first, last |-> last, upper |-> upper, lower |-> lower]

\* TrapezoidalMap.update, single trapezoid (len(old_ts) == 1): [w, new_ts].
UpdateSingle(w, s, old_ts) ==
    LET o == w.traps[old_ts[1]]
        \* Generate the new trapezoids: A, B, C, D are allocated in this
        \* order.
        A == LastTrap(w) + 1
        B == LastTrap(w) + 2
        C == LastTrap(w) + 3
        D == LastTrap(w) + 4
        wD == Trapezoid(
                  Trapezoid(
                      Trapezoid(
                          Trapezoid(w, o.top, o.bottom, o.leftp, s.p),
                          o.top, o.bottom, s.q, o.rightp),
                      o.top, s, s.p, s.q),
                  s, o.bottom, s.p, s.q)
        \* Set the neighbors of each new trapezoid.
        hasA == wD.traps[A].leftp # wD.traps[A].rightp
        hasB == wD.traps[B].leftp # wD.traps[B].rightp
        w1 == IF hasA THEN set_neighbors(wD, A, o.uln, o.lln, C, D) ELSE wD
        w2 == IF hasB THEN set_neighbors(w1, B, C, D, o.urn, o.lrn) ELSE w1
    IN  [w |-> set_neighbors(
                   set_neighbors(w2, C, IF hasA THEN A ELSE o.uln, None,
                                 IF hasB THEN B ELSE o.urn, None),
                   D, None, IF hasA THEN A ELSE o.lln, None,
                   IF hasB THEN B ELSE o.lrn),
         new_ts |-> NewTrapezoids(IF hasA THEN A ELSE None,
                                  IF hasB THEN B ELSE None, <<C>>, <<D>>)]

\* TrapezoidalMap.update, several trapezoids, after the parts are merged:
\* the leftmost and rightmost new trapezoids and the neighbours of the merged
\* ones.  w0 holds the parts upper_split, lower_split and the merged
\* trapezoids upper, lower.
UpdateMerged(w0, s, old_ts, upper_split, lower_split, upper, lower) ==
    LET d0 == w0.traps[old_ts[1]]
        dk == w0.traps[old_ts[Len(old_ts)]]
        \* Check the existence of the leftmost and rightmost new trapezoids.
        first == LastTrap(w0) + 1
        last == LastTrap(w0) + 2
        wL == Trapezoid(Trapezoid(w0, d0.top, d0.bottom, d0.leftp, s.p),
                        dk.top, dk.bottom, s.q, dk.rightp)
        hasFirst == wL.traps[first].leftp # wL.traps[first].rightp
        w1 == IF hasFirst
              THEN set_neighbors(wL, first, d0.uln, d0.lln, At(upper, 0),
                                 At(lower, 0))
              ELSE wL
        uln == IF hasFirst THEN first ELSE d0.uln
        lln == IF hasFirst THEN first ELSE d0.lln
        hasLast == wL.traps[last].leftp # wL.traps[last].rightp
        w2 == IF hasLast
              THEN set_neighbors(w1, last, upper[Len(upper)],
                                 lower[Len(lower)], dk.urn, dk.lrn)
              ELSE w1
        urn == IF hasLast THEN last ELSE dk.urn
        lrn == IF hasLast THEN last ELSE dk.lrn
    IN  \* Set the neighbors of each merged trapezoid.
        [w |-> update_neighbors(
                   update_neighbors(w2, upper_split, upper, uln, urn, TRUE),
                   lower_split, lower, lln, lrn, FALSE),
         new_ts |-> NewTrapezoids(IF hasFirst THEN first ELSE None,
                                  IF hasLast THEN last ELSE None,
                                  upper, lower)]

\* TrapezoidalMap.update, several trapezoids: [w, new_ts].
UpdateMultiple(w, s, old_ts) ==
    LET split == split_trapezoids(w, s, old_ts)
        mu == merge_trapezoids(split.w, split.upper)
        ml == merge_trapezoids(mu.w, split.lower)
    IN  UpdateMerged(ml.w, s, old_ts, split.upper, split.lower, mu.res,
                     ml.res)

\* TrapezoidalMap.remove_trapezoids
remove_trapezoids(ts, old_ts) == ts \ Range(old_ts)

\* A faulty TrapezoidalMap.add_trapezoids that never adds new_ts.last.
add_trapezoids_WithoutLast(ts, nts) ==
    ts \cup (({nts.first} \cup Range(nts.upper) \cup Range(nts.lower))
              \ {None})

\* TrapezoidalMap.add_trapezoids (add_trapezoid skips None)
add_trapezoids(ts, nts) ==
    ts \cup (({nts.first} \cup Range(nts.upper) \cup Range(nts.lower)
              \cup {nts.last}) \ {None})

\* The end of TrapezoidalMap.update before the call of D.update: the old
\* trapezoids are removed and the new ones r.new_ts added.
ReplaceTrapezoids(r, ts, old_ts) ==
    [w |-> r.w, new_ts |-> r.new_ts,
     trapezoids |-> add_trapezoids(remove_trapezoids(ts, old_ts), r.new_ts)]

\* TrapezoidalMap.update up to the call of D.update:
\* [w, new_ts, trapezoids].
map_update(w, ts, s, old_ts) ==
    ReplaceTrapezoids(IF Len(old_ts) = 1 THEN UpdateSingle(w, s, old_ts)
                      ELSE UpdateMultiple(w, s, old_ts),
                      ts, old_ts)

----------------------------------------------------------------------------
\* structures.py: SearchStructure

\* SearchStructure.update, single trapezoid, up to the choice of sub_root:
\* the inner nodes and their children, [w, sub_root].
SubtreeSingle(w, s, nts) ==
    LET A == nts.first
        B == nts.last
        C == At(nts.upper, 0)
        D == At(nts.lower, 0)
        \* Create the inner nodes: np, ns, nq are allocated in this order.
        np == LastNode(w) + 1
        ns == LastNode(w) + 2
        nq == LastNode(w) + 3
        w3 == XNode(YNode(XNode(w, s.p), s), s.q)
        \* Add the leaves of the intermediate trapezoids.
        w5 == set_right_child(set_left_child(w3, ns, w.traps[C].leaf), ns,
                              w.traps[D].leaf)
    IN  \* Create the subtree depending from the existence of A and B.
        [w |-> IF A # None /\ B # None
               THEN set_right_child(
                      set_left_child(
                        set_right_child(set_left_child(w5, nq, ns), nq,
                                        w.traps[B].leaf),
                        np, w.traps[A].leaf),
                      np, nq)
               ELSE IF A # None /\ B = None
               THEN set_right_child(set_left_child(w5, np, w.traps[A].leaf),
                                    np, ns)
               ELSE IF A = None /\ B # None
               THEN set_right_child(set_left_child(w5, nq, ns), nq,
                                    w.traps[B].leaf)
               ELSE w5,
         sub_root |-> IF A # None THEN np ELSE IF B # None THEN nq ELSE ns]

\* A faulty end of the single case: the root is never reassigned.
ReplaceOld_KeepRoot(sub, rt, old) ==
    [w |-> replace_leaf(sub.w, sub.sub_root, old), root |-> rt]

\* The end of SearchStructure.update, single trapezoid: the old leaf is
\* replaced with the new subtree sub.sub_root, or the root is reassigned.
ReplaceOld(sub, rt, old) ==
    IF rt = old THEN [w |-> sub.w, root |-> sub.sub_root]
    ELSE [w |-> replace_leaf(sub.w, sub.sub_root, old), root |-> rt]

\* SearchStructure.update, single trapezoid: [w, root].
DagUpdateSingle(w, rt, s, old_ts, nts) ==
    ReplaceOld(SubtreeSingle(w, s, nts), rt, w.traps[old_ts[1]].leaf)

\* The loop of SearchStructure.update that creates the Y-nodes, one for each
\* i in range(len(old_ts)): [w, ns_list].
RECURSIVE CreateYNodes(_, _, _, _, _)
CreateYNodes(st, s, nts, n, i) ==
    IF i > n THEN st
    ELSE LET w1 == YNode(st.w, s)
             ns == LastNode(w1)
             w2 == set_left_child(w1, ns, w1.traps[nts.upper[i]].leaf)
             w3 == set_right_child(w2, ns, w2.traps[nts.lower[i]].leaf)
         IN  CreateYNodes([w |-> w3, ns_list |-> Append(st.ns_list, ns)],
                          s, nts, n, i + 1)

\* The loop of SearchStructure.update that replaces each remaining leaf.
RECURSIVE ReplaceRemaining(_, _, _, _)
ReplaceRemaining(w, ns_list, old_ts, i) ==
    IF i > Len(old_ts) THEN w
    ELSE ReplaceRemaining(replace_leaf(w, ns_list[i], w.traps[old_ts[i]].leaf),
                          ns_list, old_ts, i + 1)

\* SearchStructure.update, several trapezoids: np = XNode(s.p) and its two
\* children, as they are when np.replace_leaf is called.
WireLeftmost(w, s, first, ns_list) ==
    set_right_child(
        set_left_child(XNode(w, s.p), LastNode(w) + 1, w.traps[first].leaf),
        LastNode(w) + 1, At(ns_list, 0))

\* SearchStructure.update, several trapezoids: nq = XNode(s.q) and its two
\* children, as they are when nq.replace_leaf is called.
WireRightmost(w, s, last, ns_list) ==
    set_right_child(
        set_left_child(XNode(w, s.q), LastNode(w) + 1,
                       ns_list[Len(ns_list)]),
        LastNode(w) + 1, w.traps[last].leaf)

\* SearchStructure.update, several trapezoids: the X-node np that replaces
\* the leftmost leaf when first exists.
ReplaceLeftmost(w, s, first, ns_list, old_ts) ==
    IF first = None THEN w
    ELSE replace_leaf(WireLeftmost(w, s, first, ns_list),
                      LastNode(w) + 1, w.traps[At(old_ts, 0)].leaf)

\* SearchStructure.update, several trapezoids: the X-node nq that replaces
\* the rightmost leaf when last exists.
ReplaceRightmost(w, s, last, ns_list, old_ts) ==
    IF last = None THEN w
    ELSE replace_leaf(WireRightmost(w, s, last, ns_list),
                      LastNode(w) + 1, w.traps[old_ts[Len(old_ts)]].leaf)

\* SearchStructure.update, several trapezoids: [w, root].
DagUpdateMultiple(w, rt, s, old_ts, nts) ==
    LET \* Create the Y-nodes (one per intersected trapezoid).
        ys == CreateYNodes([w |-> w, ns_list |-> <<>>], s, nts,
                           Len(old_ts), 1)
    IN  [w |-> ReplaceRemaining(
                   ReplaceRightmost(
                       ReplaceLeftmost(ys.w, s, nts.first, ys.ns_list,
                                       old_ts),
                       s, nts.last, ys.ns_list, old_ts),
                   ys.ns_list, old_ts, 1),
         root |-> rt]

\* SearchStructure.update: [w, root].
dag_update(w, rt, s, old_ts, nts) ==
    IF Len(old_ts) = 1 THEN DagUpdateSingle(w, rt, s, old_ts, nts)
    ELSE DagUpdateMultiple(w, rt, s, old_ts, nts)

\* SearchStructure.query: the trapezoid of the leaf reached, else None.
query(w, rt, q) ==
    LET res == traverse(w, rt, q)
    IN  IF res = Raised THEN Raised
        ELSE IF w.nodes[res].kind = "leaf" THEN w.nodes[res].val
        ELSE None

----------------------------------------------------------------------------
\* structures.py: Subdivision

Min(S) == CHOOSE v \in S : \A u \in S : v <= u
Max(S) == CHOOSE v \in S : \A u \in S : v >= u

\* Subdivision.bounding_box: [w, R] for a non-empty set of segments; the
\* corners are new Point objects (tag -1).
bounding_box(w, segs) ==
    LET min_x == Min({sg.p.x : sg \in segs})
        max_x == Max({sg.q.x : sg \in segs})
        min_y == Min({sg.p.y : sg \in segs} \cup {sg.q.y : sg \in segs})
        max_y == Max({sg.p.y : sg \in segs} \cup {sg.q.y : sg \in segs})
        x1 == min_x - Margin
        x2 == max_x + Margin
        y1 == min_y - Margin
        y2 == max_y + Margin
        ll == Point(x1, y1, -1)
        lr == Point(x2, y1, -1)
        ul == Point(x1, y2, -1)
        ur == Point(x2, y2, -1)
    IN  Trapezoid(w, Segment(ul, ur), Segment(ll, lr), ll, lr)

\* The heaps before any object exists.
EmptyHeaps == [traps |-> <<>>, nodes |-> <<>>]

\* The heaps as one value.
Heaps == [traps |-> traps, nodes |-> nodes]

----------------------------------------------------------------------------
\* The inputs: what the caller passes to Subdivision(segments).

\* The pairs of endpoints (p1, p2) a Segment is built from, each pair once.
RawSegments ==
    {r \in Endpoints \X Endpoints :
        \/ r[1][1] < r[2][1]
        \/ r[1][1] = r[2][1] /\ r[1][2] < r[2][2]}

\* Twice the signed area of the triangle (o, a, b).
Orient(o, a, b) ==
    (a[1] - o[1]) * (b[2] - o[2]) - (a[2] - o[2]) * (b[1] - o[1])

\* c lies on the closed segment (a, b).
OnSegment(a, b, c) ==
    /\ Orient(a, b, c) = 0
    /\ (a[1] - c[1]) * (b[1] - c[1]) <= 0
    /\ (a[2] - c[2]) * (b[2] - c[2]) <= 0

\* Two distinct segments meet only in a common endpoint, if at all.
DoNotCross(r, t) ==
    LET shared == {r[1], r[2]} \cap {t[1], t[2]}
        d1 == Orient(t[1], t[2], r[1])
        d2 == Orient(t[1], t[2], r[2])
        d3 == Orient(r[1], r[2], t[1])
        d4 == Orient(r[1], r[2], t[2])
    IN  /\ ~(d1 * d2 < 0 /\ d3 * d4 < 0)
        /\ \A c \in {r[1], r[2]} \ shared : ~OnSegment(t[1], t[2], c)
        /\ \A c \in {t[1], t[2]} \ shared : ~OnSegment(r[1], r[2], c)
        /\ \A c \in shared :
             LET a == CHOOSE e \in {r[1], r[2]} : e # c
                 b == CHOOSE e \in {t[1], t[2]} : e # c
             IN  ~(Orient(c, a, b) = 0
                   /\ (a[1] - c[1]) * (b[1] - c[1])
                        + (a[2] - c[2]) * (b[2] - c[2]) > 0)

\* The sets of segments a subdivision may consist of: non-empty, at most
\* MaxSegs segments, no two of them crossing or overlapping.
Subdivisions ==
    {raw \in SUBSET RawSegments :
        /\ raw # {}
        /\ Cardinality(raw) <= MaxSegs
        /\ \A r \in raw : \A t \in raw \ {r} : DoNotCross(r, t)}

\* The Point object of the endpoint c of the raw segment r.  When the caller
\* shares Point objects between segments, equal coordinates are one object
\* (tag 0); otherwise every segment has Point objects of its own.
EndPoint(c, r, share) ==
    Point(c[1], c[2],
          IF share THEN 0
          ELSE 1 + ((r[1][1] * 10 + r[1][2]) * 10 + r[2][1]) * 10 + r[2][2])

\* The Segment objects of a subdivision.
Segments(raw, share) ==
    {Segment(EndPoint(r[1], r, share), EndPoint(r[2], r, share)) : r \in raw}

\* The query points: the points of integer coordinates of the bounding box
\* and of a band of width QMargin around it.
QueryPoints ==
    LET R == traps[1]
    IN  {Point(x, y, -3) :
           x \in (R.bottom.p.x - QMargin)..(R.bottom.q.x + QMargin),
           y \in (R.bottom.p.y - QMargin)..(R.top.p.y + QMargin)}

----------------------------------------------------------------------------
\* The state machine.

\* Subdivision.__init__: the bounding box, TrapezoidalMap(R) and
\* SearchStructure(R); trapezoidal_map has not started.
Init ==
    \E raw \in Subdivisions : \E share \in BOOLEAN :
        LET segs == Segments(raw, share)
            w == bounding_box(EmptyHeaps, segs)
            R == LastTrap(w)
        IN  /\ segments = segs
            /\ pending = segs
            /\ traps = w.traps
            /\ nodes = w.nodes
            /\ trapezoids = {R}
            /\ root = w.traps[R].leaf
            /\ pc = "loop"
            /\ cur = None
            /\ deltas = <<>>
            /\ new_ts = NewTrapezoids(None, None, <<>>, <<>>)
            /\ err = "none"
            /\ qpt = None
            /\ face = None

\* One iteration of trapezoidal_map, first half: the next segment of the
\* shuffled list (any segment not yet inserted) and T.follow_segment.
FollowSegment ==
    /\ pc = "loop"
    /\ \E s \in pending :
         \E r \in {follow_segment(Heaps, root, s)} :
             /\ cur' = s
             /\ pending' = pending \ {s}
             /\ deltas' = r.deltas
             /\ err' = r.err
             /\ pc' = IF r.err = "none" THEN "update" ELSE "crashed"
    /\ UNCHANGED <<segments, traps, nodes, trapezoids, root, new_ts, qpt, face>>

\* TrapezoidalMap.update up to the removal of the old trapezoids and the
\* addition of the new ones.
MapUpdate ==
    /\ pc = "update"
    /\ \E r \in {map_update(Heaps, trapezoids, cur, deltas)} :
           /\ traps' = r.w.traps
           /\ nodes' = r.w.nodes
           /\ trapezoids' = r.trapezoids
           /\ new_ts' = r.new_ts
    /\ pc' = "dag"
    /\ UNCHANGED <<segments, pending, root, cur, deltas, err, qpt, face>>

\* The call of D.update that ends TrapezoidalMap.update, and the end of the
\* iteration.
DagUpdate ==
    /\ pc = "dag"
    /\ \E r \in {dag_update(Heaps, root, cur, deltas, new_ts)} :
           /\ traps' = r.w.traps
           /\ nodes' = r.w.nodes
           /\ root' = r.root
    /\ pc' = IF pending = {} THEN "done" ELSE "loop"
    /\ UNCHANGED <<segments, pending, trapezoids, cur, deltas, new_ts, err,
                   qpt, face>>

\* SearchStructure.query on the finished structure.
Query ==
    /\ pc = "done"
    /\ \E q \in QueryPoints :
         /\ qpt' = q
         /\ face' = query(Heaps, root, q)
    /\ pc' = "queried"
    /\ UNCHANGED <<segments, pending, traps, nodes, trapezoids, root, cur,
                   deltas, new_ts, err>>

Next == FollowSegment \/ MapUpdate \/ DagUpdate \/ Query

Spec == Init /\ [][Next]_vars

----------------------------------------------------------------------------
\* Vocabulary of the properties.

\* The input is valid: no segment is vertical (Init admits no crossing).
ValidInput == \A s \in segments : s.p.x # s.q.x

\* No update is running: construction has not started an iteration, or the
\* last TrapezoidalMap.update has returned.
UpdateCompleted == pc \in {"loop", "done"}

\* At least one update has run to completion.
SomeUpdateCompleted == UpdateCompleted /\ pending # segments

\* The children of a set of nodes.
Children(S) ==
    {nodes[n].left_child : n \in S} \cup {nodes[n].right_child : n \in S}

\* The nodes reachable from the nodes of S (None excluded).
RECURSIVE ReachableFrom(_)
ReachableFrom(S) ==
    LET S2 == (S \cup Children(S)) \ {None}
    IN  IF S2 = S THEN S ELSE ReachableFrom(S2)

\* The nodes and the leaves reachable from SearchStructure.root.
Reachable == ReachableFrom({root})
ReachableLeaves == {n \in Reachable : nodes[n].kind = "leaf"}

\* Two points have the same coordinates.
SameCoordinates(a, b) == a.x = b.x /\ a.y = b.y

\* The point p lies in the open interior of the trapezoid t.
InInterior(p, t) ==
    /\ traps[t].leftp.x < p.x
    /\ p.x < traps[t].rightp.x
    /\ CrossProduct(p, traps[t].top)[1] > 0
    /\ CrossProduct(p, traps[t].bottom)[1] < 0

\* The bounding box R is the first trapezoid allocated.
R == 1

\* The point p lies strictly inside R / outside the closed rectangle R.
StrictlyInsideR(p) ==
    /\ traps[R].bottom.p.x < p.x /\ p.x < traps[R].bottom.q.x
    /\ traps[R].bottom.p.y < p.y /\ p.y < traps[R].top.p.y
OutsideR(p) ==
    \/ p.x < traps[R].bottom.p.x \/ p.x > traps[R].bottom.q.x
    \/ p.y < traps[R].bottom.p.y \/ p.y > traps[R].top.p.y

\* The point p lies on the segment s, strictly between its endpoints.
OnOpenSegment(p, s) ==
    /\ CrossProduct(p, s) = <<0, 0>>
    /\ s.p.x < p.x /\ p.x < s.q.x

\* The (top, bottom, leftp, rightp) tuples of a set ts of trapezoids of w,
\* by coordinates.
Coordinates(sg) == <<sg.p.x, sg.p.y, sg.q.x, sg.q.y>>
TupleSet(w, ts) ==
    {<<Coordinates(w.traps[t].top), Coordinates(w.traps[t].bottom),
       w.traps[t].leftp.x, w.traps[t].leftp.y,
       w.traps[t].rightp.x, w.traps[t].rightp.y>> : t \in ts}

\* Subdivision.__init__ followed by trapezoidal_map for one outcome of the
\* shuffle: the loop over the list order from index i on.
RECURSIVE Construct(_, _, _)
Construct(st, order, i) ==
    IF i > Len(order) \/ st.err # "none" THEN st
    ELSE LET f == follow_segment(st.w, st.root, order[i])
         IN  IF f.err # "none" THEN [st EXCEPT !.err = f.err]
             ELSE LET m == map_update(st.w, st.trapezoids, order[i], f.deltas)
                      d == dag_update(m.w, st.root, order[i], f.deltas,
                                      m.new_ts)
                  IN  Construct([w |-> d.w, trapezoids |-> m.trapezoids,
                                 root |-> d.root, err |-> "none"],
                                order, i + 1)

trapezoidal_map(order) ==
    LET w == bounding_box(EmptyHeaps, segments)
    IN  Construct([w |-> w, trapezoids |-> {LastTrap(w)},
                   root |-> w.traps[LastTrap(w)].leaf, err |-> "none"],
                  order, 1)

\* The orders random.shuffle can produce.
Shuffles ==
    {o \in [1..Cardinality(segments) -> segments] :
        \A i, j \in 1..Cardinality(segments) : i # j => o[i] # o[j]}

----------------------------------------------------------------------------
\* The claims.

\* C1: after trapezoidal_map has inserted every segment of a valid input, in
\* any order, a query of a point in the open interior of a trapezoid t of T
\* returns exactly t.
C1_QueryReturnsContainingTrapezoid ==
    (pc = "queried" /\ ValidInput) =>
        \A t \in trapezoids : InInterior(qpt, t) => face = t

\* C2: after every completed update the leaves reachable from the root are
\* exactly the leaves of the trapezoids of T, each naming its trapezoid.
C2_LeafBijection ==
    (UpdateCompleted /\ ValidInput) =>
        /\ ReachableLeaves = {traps[t].leaf : t \in trapezoids}
        /\ \A t \in trapezoids : nodes[traps[t].leaf].val = t
        /\ Cardinality(ReachableLeaves) = Cardinality(trapezoids)

\* C3: after every completed update the neighbour slots of the trapezoids of
\* T are symmetric: t.urn = u implies u.uln = t, and so on for the other
\* three pairs.
C3_NeighborSymmetry ==
    (UpdateCompleted /\ ValidInput) =>
        \A t \in trapezoids : \A u \in trapezoids :
            /\ traps[t].urn = u => traps[u].uln = t
            /\ traps[t].lrn = u => traps[u].lln = t
            /\ traps[t].uln = u => traps[u].urn = t
            /\ traps[t].lln = u => traps[u].lrn = t

\* C4: after every completed update the graph reachable from the root is
\* acyclic, every reachable X-node and Y-node has two children, and every
\* reachable leaf has none.
C4_DagWellFormed ==
    UpdateCompleted =>
        \A n \in Reachable :
            /\ n \notin ReachableFrom(Children({n}) \ {None})
            /\ nodes[n].kind \in {"x", "y"} =>
                   nodes[n].left_child # None /\ nodes[n].right_child # None
            /\ nodes[n].kind = "leaf" =>
                   nodes[n].left_child = None /\ nodes[n].right_child = None

\* C4 witness: a completed update of several trapezoids after which a leaf
\* shared by two parents is reachable under X-nodes and Y-nodes.
C4_Witness ==
    /\ SomeUpdateCompleted
    /\ Len(deltas) >= 2
    /\ \E n \in ReachableLeaves : Cardinality(nodes[n].parents) >= 2
    /\ \E n \in Reachable : nodes[n].kind = "x"
    /\ \E n \in Reachable : nodes[n].kind = "y"

\* C5: a query of a point strictly inside R, also one that coincides with a
\* segment endpoint or lies on a segment, returns a trapezoid, never None.
C5_QueryInsideNeverFails ==
    (pc = "queried" /\ ValidInput /\ StrictlyInsideR(qpt)) =>
        face # None /\ face # Raised

\* C6: a query of a point outside the bounding box R returns None.
C6_QueryOutsideNotFound ==
    (pc = "queried" /\ ValidInput /\ OutsideR(qpt)) => face = None

\* C7: when the input holds a vertical segment no construction step is
\* performed: no follow_segment or update runs, T stays {R} and D stays the
\* leaf of R.
C7_VerticalInputRejected ==
    ~ValidInput =>
        /\ pc \notin {"update", "dag", "done", "queried"}
        /\ deltas = <<>>
        /\ trapezoids = {R}
        /\ root = traps[R].leaf

\* C8: a query point lying on an input segment s, between its endpoints, is
\* classified as below s: the query returns the trapezoid returned for the
\* point displaced slightly downward, whose top is s.
C8_OnSegmentIsBelow ==
    (pc = "queried" /\ ValidInput) =>
        \A s \in segments : OnOpenSegment(qpt, s) =>
            /\ face = query(Heaps, root, [qpt EXCEPT !.ey = -1])
            /\ face \in trapezoids /\ traps[face].top = s

\* C9: no trapezoid of T has leftp and rightp with the same coordinates,
\* whatever endpoints the segments of a valid input share.
C9_NoZeroWidthTrapezoid ==
    ValidInput =>
        \A t \in trapezoids :
            ~SameCoordinates(traps[t].leftp, traps[t].rightp)

\* C10: for a valid input, any two insertion orders that run to completion
\* end with the same set of (top, bottom, leftp, rightp) tuples.
C10_OrderIndependent ==
    (pc = "done" /\ ValidInput) =>
        \A o \in Shuffles :
            LET other == trapezoidal_map(o)
            IN  other.err = "none" =>
                    TupleSet(other.w, other.trapezoids)
                        = TupleSet(Heaps, trapezoids)

\* C11: within the insertion of one segment no trapezoid of the intersected
\* list is removed from T.trapezoids before its leaf has been replaced in D:
\* a trapezoid of deltas that has left T has no leaf reachable from the root.
C11_RetiredAfterLeafReplaced ==
    (pc \in {"update", "dag"} /\ ValidInput) =>
        \A t \in Range(deltas) :
            t \notin trapezoids => traps[t].leaf \notin Reachable

\* The heap at the moment SearchStructure.update issues its first
\* replace_leaf call (or reassigns the root): in the single case the whole
\* subtree is built; in the multi case the Y-nodes are built, and np when
\* first exists, else nq when last exists.
BeforeFirstReplace(w, s, old_ts, nts) ==
    IF Len(old_ts) = 1 THEN SubtreeSingle(w, s, nts).w
    ELSE LET ys == CreateYNodes([w |-> w, ns_list |-> <<>>], s, nts,
                                Len(old_ts), 1)
         IN  IF nts.first # None
             THEN WireLeftmost(ys.w, s, nts.first, ys.ns_list)
             ELSE IF nts.last # None
             THEN WireRightmost(ys.w, s, nts.last, ys.ns_list)
             ELSE ys.w

\* The inner nodes SearchStructure.update creates and wires: the nodes of
\* the heap after that are not in the heap before and have a child.
NewInnerNodes(before, after) ==
    {n \in (Len(before.nodes) + 1)..Len(after.nodes) :
        /\ after.nodes[n].kind \in {"x", "y"}
        /\ \/ after.nodes[n].left_child # None
           \/ after.nodes[n].right_child # None}

\* C12: in SearchStructure.update every new inner node of the current
\* segment has both children set before the first replace_leaf call (or the
\* reassignment of the root) of that update.
C12_WiredBeforeFirstReplace ==
    (pc = "dag" /\ ValidInput) =>
        LET first_replace == BeforeFirstReplace(Heaps, cur, deltas, new_ts)
            after == dag_update(Heaps, root, cur, deltas, new_ts).w
        IN  \A n \in NewInnerNodes(Heaps, after) :
                /\ n <= Len(first_replace.nodes)
                /\ first_replace.nodes[n].left_child # None
                /\ first_replace.nodes[n].right_child # None

----------------------------------------------------------------------------
\* Calls of single operations on structures the construction has built.

\* Neighbour symmetry (I3) of the trapezoids ts of the heaps w.
NeighborSymmetry(w, ts) ==
    \A t \in ts : \A u \in ts :
        /\ w.traps[t].urn = u => w.traps[u].uln = t
        /\ w.traps[t].lrn = u => w.traps[u].lln = t
        /\ w.traps[t].uln = u => w.traps[u].urn = t
        /\ w.traps[t].lln = u => w.traps[u].lrn = t

\* The structures after Subdivision(segments) and trapezoidal_map() for an
\* input of one non-vertical segment; the next step is a call on them.
CallInit ==
    \E raw \in Subdivisions : \E share \in BOOLEAN :
        \E s \in Segments(raw, share) :
            /\ Segments(raw, share) = {s}
            /\ s.p.x # s.q.x
            /\ \E w0 \in {bounding_box(EmptyHeaps, {s})} :
               \E f \in {follow_segment(w0, w0.traps[LastTrap(w0)].leaf, s)} :
               \E m \in {map_update(w0, {LastTrap(w0)}, s, f.deltas)} :
               \E r \in {dag_update(m.w, w0.traps[LastTrap(w0)].leaf, s,
                                    f.deltas, m.new_ts)} :
                   /\ segments = {s}
                   /\ pending = {}
                   /\ traps = r.w.traps
                   /\ nodes = r.w.nodes
                   /\ trapezoids = m.trapezoids
                   /\ root = r.root
                   /\ err = f.err
                   /\ pc = "call"
                   /\ cur = s
                   /\ deltas = <<>>
                   /\ new_ts = NewTrapezoids(None, None, <<>>, <<>>)
                   /\ qpt = None
                   /\ face = None

\* A call t.set_neighbors(uln, lln, urn, lrn) on a trapezoid of T with
\* trapezoids of T (or None) as neighbours.
SetNeighborsCall ==
    /\ pc = "call"
    /\ \E t \in trapezoids :
       \E uln, lln, urn, lrn \in (trapezoids \cup {None}) \ {t} :
           traps' = set_neighbors(Heaps, t, uln, lln, urn, lrn).traps
    /\ pc' = "returned"
    /\ UNCHANGED <<segments, pending, nodes, trapezoids, root, cur, deltas,
                   new_ts, err, qpt, face>>

\* The longest list of parts handed to merge_trapezoids.
MaxParts == 3

\* The lists of parts: trapezoids of the heap, in any order, repeats allowed.
PartsLists ==
    UNION {[1..n -> 1..Len(traps)] : n \in 1..MaxParts}

\* A call merge_trapezoids(parts); the list handed over is kept in deltas
\* and the list returned in new_ts.upper, where TrapezoidalMap.update keeps
\* the merged upper parts.
MergeTrapezoidsCall ==
    /\ pc = "call"
    /\ \E parts \in PartsLists :
       \E r \in {merge_trapezoids(Heaps, parts)} :
           /\ traps' = r.w.traps
           /\ nodes' = r.w.nodes
           /\ deltas' = parts
           /\ new_ts' = NewTrapezoids(None, None, r.res, <<>>)
    /\ pc' = "merged"
    /\ UNCHANGED <<segments, pending, trapezoids, root, cur, err, qpt, face>>

\* A call q.lies_above(s) for a query point q and the segment s of the
\* subdivision; the value returned is kept as the branch the caller takes on
\* it (Node.traverse: the left child when the point lies above).
LiesAboveCall ==
    /\ pc = "call"
    /\ \E q \in QueryPoints :
         /\ qpt' = q
         /\ pc' = IF lies_above(q, cur) THEN "above" ELSE "not_above"
    /\ UNCHANGED <<segments, pending, traps, nodes, trapezoids, root, cur,
                   deltas, new_ts, err, face>>

CallNext == SetNeighborsCall \/ MergeTrapezoidsCall \/ LiesAboveCall

CallSpec == CallInit /\ [][CallNext]_vars

\* C13: when the neighbour slots are symmetric before a call
\* t.set_neighbors(uln, lln, urn, lrn), then after it the four slots of t
\* are the arguments, every argument that is not None points back to t in
\* the opposite slot, and the neighbour slots are still symmetric for every
\* trapezoid.
C13_SetNeighborsPreservesSymmetry ==
    (pc = "call" /\ NeighborSymmetry(Heaps, trapezoids)) =>
        \A t \in trapezoids :
        \A uln, lln, urn, lrn \in (trapezoids \cup {None}) \ {t} :
            LET after == set_neighbors(Heaps, t, uln, lln, urn, lrn)
            IN  /\ after.traps[t].uln = uln /\ after.traps[t].lln = lln
                /\ after.traps[t].urn = urn /\ after.traps[t].lrn = lrn
                /\ uln # None => after.traps[uln].urn = t
                /\ lln # None => after.traps[lln].lrn = t
                /\ urn # None => after.traps[urn].uln = t
                /\ lrn # None => after.traps[lrn].lln = t
                /\ NeighborSymmetry(after, trapezoids)

\* The (top, bottom, leftp, rightp) tuples of the trapezoids of T, by object.
Tuples ==
    {<<traps[t].top, traps[t].bottom, traps[t].leftp, traps[t].rightp>> :
        t \in trapezoids}

\* C14: for an input of one non-vertical segment s construction ends with
\* four trapezoids: A = (R.top, R.bottom, R.ll, s.p),
\* B = (R.top, R.bottom, s.q, R.lr), C = (R.top, s, s.p, s.q) and
\* D = (s, R.bottom, s.p, s.q).
C14_SingleSegmentFourTrapezoids ==
    (pc = "done" /\ ValidInput /\ Cardinality(segments) = 1) =>
        \A s \in segments :
            /\ Cardinality(trapezoids) = 4
            /\ Tuples =
                 {<<traps[R].top, traps[R].bottom, traps[R].leftp, s.p>>,
                  <<traps[R].top, traps[R].bottom, s.q, traps[R].rightp>>,
                  <<traps[R].top, s, s.p, s.q>>,
                  <<s, traps[R].bottom, s.p, s.q>>}

\* C14 witness: the construction of a valid input of one segment is done.
C14_Witness ==
    /\ pc = "done" /\ ValidInput /\ Cardinality(segments) = 1
    /\ Cardinality(trapezoids) = 4

----------------------------------------------------------------------------
\* The two-segment example of src/src/test.py: s1 = ((1,3),(5,4)) and
\* s2 = ((3,2),(6,1)).  s2 starts below s1 and ends to the right of it, so
\* inserting s2 after s1 is an update of several trapezoids.

ExampleS2 == {<<<<1, 3>>, <<5, 4>>>>, <<<<3, 2>>, <<6, 1>>>>}

\* Subdivision.__init__ for the segments segs.
Start(segs) ==
    \E w \in {bounding_box(EmptyHeaps, segs)} :
        /\ segments = segs
        /\ pending = segs
        /\ traps = w.traps
        /\ nodes = w.nodes
        /\ trapezoids = {LastTrap(w)}
        /\ root = w.traps[LastTrap(w)].leaf
        /\ pc = "loop"
        /\ cur = None
        /\ deltas = <<>>
        /\ new_ts = NewTrapezoids(None, None, <<>>, <<>>)
        /\ err = "none"
        /\ qpt = None
        /\ face = None

S2Init == \E share \in BOOLEAN : Start(Segments(ExampleS2, share))

S2Spec == S2Init /\ [][Next]_vars

\* The segment of the input with the coordinates c.
SegmentAt(c) == CHOOSE s \in segments : Coordinates(s) = c

\* The inner nodes of the DAG that have the node n as a child.
ParentsInDag(n) ==
    {m \in Reachable : nodes[m].left_child = n \/ nodes[m].right_child = n}

\* The seven trapezoids of the example.
S2Tuples(s1, s2) ==
    {<<traps[R].top, traps[R].bottom, traps[R].leftp, s1.p>>,
     <<traps[R].top, s1, s1.p, s1.q>>,
     <<s1, traps[R].bottom, s1.p, s2.p>>,
     <<s1, s2, s2.p, s1.q>>,
     <<traps[R].top, s2, s1.q, s2.q>>,
     <<s2, traps[R].bottom, s2.p, s2.q>>,
     <<traps[R].top, traps[R].bottom, s2.q, traps[R].rightp>>}

\* The leaf of the trapezoid below s2 is a child of exactly k nodes of the
\* DAG, each of them a Y-node of s2.
BelowS2SharedBy(s2, k) ==
    \A t \in trapezoids :
        (traps[t].top = s2 /\ traps[t].bottom = traps[R].bottom) =>
            /\ Cardinality(ParentsInDag(traps[t].leaf)) = k
            /\ \A m \in ParentsInDag(traps[t].leaf) :
                   nodes[m].kind = "y" /\ nodes[m].val = s2

\* C15 as stated: for the example, in either insertion order, construction
\* ends with the seven trapezoids of S2Tuples, and the leaf of the merged
\* trapezoid (s2, R.bottom, s2.p, s2.q) is a child of two distinct Y-nodes
\* of s2.
C15_Original ==
    pc = "done" =>
        /\ Cardinality(trapezoids) = 7
        /\ Tuples = S2Tuples(SegmentAt(<<1, 3, 5, 4>>), SegmentAt(<<3, 2, 6, 1>>))
        /\ BelowS2SharedBy(SegmentAt(<<3, 2, 6, 1>>), 2)

\* C15, amended: in either insertion order construction ends with the seven
\* trapezoids of S2Tuples; the leaf of (s2, R.bottom, s2.p, s2.q) is a child
\* of two distinct Y-nodes of s2 when s2 is inserted after s1 (the update of
\* several trapezoids merges the pieces below s2), and of one Y-node of s2
\* when s2 is inserted first (the update of the single trapezoid R).
C15_SevenTrapezoidsSharedLeaf ==
    pc = "done" =>
        /\ Cardinality(trapezoids) = 7
        /\ Tuples = S2Tuples(SegmentAt(<<1, 3, 5, 4>>), SegmentAt(<<3, 2, 6, 1>>))
        /\ BelowS2SharedBy(SegmentAt(<<3, 2, 6, 1>>),
                           IF cur = SegmentAt(<<3, 2, 6, 1>>) THEN 2 ELSE 1)

C15_Witness ==
    /\ pc = "done"
    /\ cur = SegmentAt(<<3, 2, 6, 1>>)
    /\ Cardinality(trapezoids) = 7
    /\ \E t \in trapezoids :
           /\ traps[t].top = cur
           /\ traps[t].bottom = traps[R].bottom
           /\ Cardinality(ParentsInDag(traps[t].leaf)) = 2

----------------------------------------------------------------------------
\* The five-segment example: three of the segments meet in (2,4), and the
\* others are chained by shared endpoints.

ExampleS3 ==
    {<<<<10, 8>>, <<2, 4>>>>, <<<<2, 4>>, <<6, 2>>>>, <<<<6, 2>>, <<20, 4>>>>,
     <<<<20, 4>>, <<12, 10>>>>, <<<<2, 4>>, <<16, 6>>>>}

S3Init == \E share \in BOOLEAN : Start(Segments(ExampleS3, share))

S3Spec == S3Init /\ [][Next]_vars

\* C16: for the five-segment example, in every insertion order, construction
\* runs to completion, and query((8,5)) returns a trapezoid whose top and
\* bottom are both input segments.
C16_ExampleCompletesAndQuery ==
    /\ pc # "crashed"
    /\ (pc = "queried" /\ qpt.x = 8 /\ qpt.y = 5) =>
           /\ face # None
           /\ traps[face].top \in segments
           /\ traps[face].bottom \in segments

----------------------------------------------------------------------------
\* The result of follow_segment.

\* The point just right of s.p along s lies in the trapezoid t: between its
\* vertical sides, below its top and above its bottom.
HoldsNudgedPoint(t, s) ==
    /\ traps[t].leftp.x <= s.p.x
    /\ s.p.x < traps[t].rightp.x
    /\ \/ CrossProduct(NudgedPoint(s), traps[t].top)[1] > 0
       \/ /\ CrossProduct(NudgedPoint(s), traps[t].top)[1] = 0
          /\ CrossProduct(NudgedPoint(s), traps[t].top)[2] > 0
    /\ \/ CrossProduct(NudgedPoint(s), traps[t].bottom)[1] < 0
       \/ /\ CrossProduct(NudgedPoint(s), traps[t].bottom)[1] = 0
          /\ CrossProduct(NudgedPoint(s), traps[t].bottom)[2] < 0

\* C17: for every segment s inserted during the construction of a valid
\* input, follow_segment(s) returns a non-empty list of trapezoids, none of
\* them None and all of them members of T.trapezoids; the first holds the
\* point just right of s.p along s, each next one is the lrn of its
\* predecessor when the predecessor's rightp lies above s and its urn
\* otherwise, and the last one is the first whose rightp is not strictly
\* left of s.q.
C17_FollowSegmentResult ==
    (pc = "update" /\ ValidInput) =>
        /\ Len(deltas) >= 1
        /\ \A j \in 1..Len(deltas) :
               deltas[j] # None /\ deltas[j] \in trapezoids
        /\ HoldsNudgedPoint(deltas[1], cur)
        /\ \A j \in 1..(Len(deltas) - 1) :
               /\ lies_left(traps[deltas[j]].rightp, cur.q)
               /\ deltas[j + 1] = IF lies_above(traps[deltas[j]].rightp, cur)
                                  THEN traps[deltas[j]].lrn
                                  ELSE traps[deltas[j]].urn
        /\ ~lies_left(traps[deltas[Len(deltas)]].rightp, cur.q)

----------------------------------------------------------------------------
\* The result of merge_trapezoids.

\* The parts i..j of the list parts have one top and one bottom: they lie in
\* one run.
SameRun(parts, i, j) ==
    \A k \in i..j :
        /\ traps[parts[k]].top = traps[parts[i]].top
        /\ traps[parts[k]].bottom = traps[parts[i]].bottom

\* The first and the last index of the maximal run that holds the part i.
RunFirst(parts, i) == CHOOSE a \in 1..i :
    SameRun(parts, a, i) /\ (a = 1 \/ ~SameRun(parts, a - 1, i))
RunLast(parts, i) == CHOOSE b \in i..Len(parts) :
    SameRun(parts, i, b) /\ (b = Len(parts) \/ ~SameRun(parts, i, b + 1))

----------------------------------------------------------------------------
\* The outer neighbours of the merged chains.

\* The outer neighbours the merged chains have in the heap w after an update
\* that made the trapezoids nts out of the trapezoids old_ts of the heap
\* before: first / last where they exist, the outer neighbours of the
\* leftmost and of the rightmost old trapezoid otherwise.
OuterNeighborsLinked(before, w, old_ts, nts) ==
    /\ w.traps[nts.upper[1]].uln =
           IF nts.first # None THEN nts.first
           ELSE before.traps[old_ts[1]].uln
    /\ w.traps[nts.lower[1]].lln =
           IF nts.first # None THEN nts.first
           ELSE before.traps[old_ts[1]].lln
    /\ w.traps[nts.upper[Len(nts.upper)]].urn =
           IF nts.last # None THEN nts.last
           ELSE before.traps[old_ts[Len(old_ts)]].urn
    /\ w.traps[nts.lower[Len(nts.lower)]].lrn =
           IF nts.last # None THEN nts.last
           ELSE before.traps[old_ts[Len(old_ts)]].lrn

\* C19: after an update of several trapezoids, the leftmost merged upper
\* trapezoid's uln and the leftmost merged lower trapezoid's lln are first
\* when first exists, and the uln / lln of the leftmost old trapezoid
\* otherwise; the rightmost merged upper's urn and the rightmost merged
\* lower's lrn are last when last exists, and the urn / lrn of the rightmost
\* old trapezoid otherwise.
C19_OuterNeighborsOfMerged ==
    (pc = "update" /\ ValidInput /\ Len(deltas) >= 2) =>
        \A r \in {map_update(Heaps, trapezoids, cur, deltas)} :
            OuterNeighborsLinked(Heaps, r.w, deltas, r.new_ts)

----------------------------------------------------------------------------
\* The contract of Node.replace_leaf.

\* The node m of the heap w has the node c as its left or right child.
HasChild(w, m, c) ==
    w.nodes[m].left_child = c \/ w.nodes[m].right_child = c

\* The nodes of the heap w reachable from the nodes of S.
RECURSIVE ReachableIn(_, _)
ReachableIn(w, S) ==
    LET S2 == (S \cup {w.nodes[m].left_child : m \in S}
                 \cup {w.nodes[m].right_child : m \in S}) \ {None}
    IN  IF S2 = S THEN S ELSE ReachableIn(w, S2)

\* What n.replace_leaf(old) has done when it turned the heap before into the
\* heap after: in every parent of old the child slots that held old hold n,
\* those parents are registered in n.parents, no other child edge has
\* changed, and no node reachable from the root rt has old as a child.
ReplaceLeafContract(before, after, rt, n, old) ==
    /\ Len(after.nodes) = Len(before.nodes)
    /\ \A m \in 1..Len(before.nodes) :
           /\ after.nodes[m].left_child =
                  IF m \in before.nodes[old].parents
                     /\ before.nodes[m].left_child = old
                  THEN n ELSE before.nodes[m].left_child
           /\ after.nodes[m].right_child =
                  IF m \in before.nodes[old].parents
                     /\ before.nodes[m].right_child = old
                  THEN n ELSE before.nodes[m].right_child
    /\ after.nodes[n].parents =
           before.nodes[n].parents
               \cup {P \in before.nodes[old].parents : HasChild(before, P, old)}
    /\ \A m \in ReachableIn(after, {rt}) : ~HasChild(after, m, old)

\* The leaves of the heap, in the DAG or retired.
Leaves == {m \in 1..Len(nodes) : nodes[m].kind = "leaf"}

\* C20: for a fresh subgraph root n and an existing leaf old,
\* n.replace_leaf(old) changes, in every parent P of old.parents, each child
\* slot that equals old to n and registers P in n.parents; it changes no
\* other child edge, and afterwards no node reachable from the DAG root has
\* old as a child.  (Every parent is visited once: old.parents is a set.)
\* The call is made for every leaf of the heap, with a fresh Y-node as n, in
\* the states in which SearchStructure.update is about to run.
C20_ReplaceLeafContract ==
    pc = "dag" =>
        \A old \in Leaves :
            \A w \in {YNode(Heaps, cur)} :
                ReplaceLeafContract(w, replace_leaf(w, LastNode(w), old),
                                    root, LastNode(w), old)

\* An update has replaced a leaf that two nodes of the DAG shared.
C20_Witness ==
    /\ pc = "dag"
    /\ \E t \in Range(deltas) :
           /\ Cardinality({P \in nodes[traps[t].leaf].parents :
                              P \in Reachable
                              /\ HasChild(Heaps, P, traps[t].leaf)}) >= 2
           /\ \A r \in {dag_update(Heaps, root, cur, deltas, new_ts)} :
                  \A m \in ReachableIn(r.w, {r.root}) :
                      ~HasChild(r.w, m, traps[t].leaf)

----------------------------------------------------------------------------
\* The subgraph that replaces the leaf of a single intersected trapezoid.

\* The node ns of the heap w is YNode(s) over the leaves of C and D.
IsYTier(w, ns, s, C, D) ==
    /\ w.nodes[ns].kind = "y" /\ w.nodes[ns].val = s
    /\ w.nodes[ns].left_child = w.traps[C].leaf
    /\ w.nodes[ns].right_child = w.traps[D].leaf

\* The node nq of the heap w is XNode(s.q) over YNode(s) and the leaf of B.
IsQTier(w, nq, s, B, C, D) ==
    /\ w.nodes[nq].kind = "x" /\ w.nodes[nq].val = s.q
    /\ w.nodes[nq].left_child # None
    /\ IsYTier(w, w.nodes[nq].left_child, s, C, D)
    /\ w.nodes[nq].right_child = w.traps[B].leaf

\* The node n of the heap w is the root of the subgraph of the single case
\* for the new trapezoids nts.
IsSingleSubgraph(w, n, s, nts) ==
    IF nts.first # None /\ nts.last # None
    THEN /\ w.nodes[n].kind = "x" /\ w.nodes[n].val = s.p
         /\ w.nodes[n].left_child = w.traps[nts.first].leaf
         /\ w.nodes[n].right_child # None
         /\ IsQTier(w, w.nodes[n].right_child, s, nts.last, nts.upper[1],
                    nts.lower[1])
    ELSE IF nts.first = None /\ nts.last # None
    THEN IsQTier(w, n, s, nts.last, nts.upper[1], nts.lower[1])
    ELSE IF nts.first # None /\ nts.last = None
    THEN /\ w.nodes[n].kind = "x" /\ w.nodes[n].val = s.p
         /\ w.nodes[n].left_child = w.traps[nts.first].leaf
         /\ w.nodes[n].right_child # None
         /\ IsYTier(w, w.nodes[n].right_child, s, nts.upper[1], nts.lower[1])
    ELSE IsYTier(w, n, s, nts.upper[1], nts.lower[1])

\* In the heap after, with root rt2, the node n stands where the leaf old
\* stood in the heap before, with root rt: as the root when old was the root,
\* and otherwise in every child slot of the old nodes that held old.
StandsFor(before, rt, after, rt2, n, old) ==
    IF rt = old THEN rt2 = n
    ELSE /\ rt2 = rt
         /\ \A P \in 1..Len(before.nodes) :
                /\ after.nodes[P].left_child =
                       IF before.nodes[P].left_child = old THEN n
                       ELSE before.nodes[P].left_child
                /\ after.nodes[P].right_child =
                       IF before.nodes[P].right_child = old THEN n
                       ELSE before.nodes[P].right_child

\* C21: in the single-trapezoid case of SearchStructure.update the old leaf
\* (or the root, when the old leaf is the root) is replaced by a subgraph
\* whose shape depends on the slivers: with A and B,
\* XNode(s.p){leaf(A), XNode(s.q){YNode(s), leaf(B)}}; without A,
\* XNode(s.q){YNode(s), leaf(B)}; without B, XNode(s.p){leaf(A), YNode(s)};
\* without both, YNode(s); YNode(s) always has leaf(C) and leaf(D) as its
\* children.
C21_SingleCaseSubgraph ==
    (pc = "dag" /\ Len(deltas) = 1) =>
        \A r \in {dag_update(Heaps, root, cur, deltas, new_ts)} :
            \E n \in (Len(nodes) + 1)..Len(r.w.nodes) :
                /\ IsSingleSubgraph(r.w, n, cur, new_ts)
                /\ StandsFor(Heaps, root, r.w, r.root, n,
                             traps[deltas[1]].leaf)

\* The shape without A and B is about to replace a leaf that is in the DAG
\* and is not its root.
C21_Witness ==
    /\ pc = "dag" /\ Len(deltas) = 1
    /\ traps[deltas[1]].leaf \in Reachable \ {root}
    /\ new_ts.first = None /\ new_ts.last = None

----------------------------------------------------------------------------
\* The value of Point.lies_above.

\* C22: for every point p and every segment s, lies_above(p, s) returns true
\* exactly when the cross product
\* (s.q.x - s.p.x) * (s.q.y - p.y) - (s.q.y - s.p.y) * (s.q.x - p.x)
\* is strictly greater than 0, and false when it is 0 or negative.
C22_LiesAboveIffPositive ==
    (pc \in {"above", "not_above"}) =>
        (pc = "above" <=>
            (cur.q.x - cur.p.x) * (cur.q.y - qpt.y)
                - (cur.q.y - cur.p.y) * (cur.q.x - qpt.x) > 0)

----------------------------------------------------------------------------
\* The neighbour slots of the trapezoids of T.

\* The neighbours a trapezoid of the heap has.
NeighborsOf(t) ==
    {traps[t].uln, traps[t].lln, traps[t].urn, traps[t].lrn} \ {None}

\* C23: after every completed TrapezoidalMap.update, every neighbour slot
\* (uln, lln, urn, lrn) of every trapezoid of T.trapezoids that is not None
\* refers to a trapezoid of T.trapezoids: no slot refers to a retired
\* trapezoid or to a split piece that a merged trapezoid has replaced.
C23_NeighborsInMap ==
    (SomeUpdateCompleted /\ ValidInput) =>
        \A t \in trapezoids : NeighborsOf(t) \subseteq trapezoids

----------------------------------------------------------------------------
\* The termination of follow_segment.

\* C24: for every segment inserted during the construction of a valid input,
\* follow_segment terminates: the restarts of the query of the left endpoint
\* reach a leaf (a run that does not is "crashed": the traversal left the
\* DAG, or the neighbour walk came back to a trapezoid it had visited, and
\* then never ends), and in the neighbour walk every appended trapezoid has
\* a rightp.x strictly greater than its predecessor's, so the walk ends
\* after at most |T| steps.
C24_FollowSegmentTerminates ==
    ValidInput =>
        /\ pc # "crashed"
        /\ pc = "update" =>
               /\ Len(deltas) <= Cardinality(trapezoids)
               /\ \A j \in 1..(Len(deltas) - 1) :
                      traps[deltas[j + 1]].rightp.x > traps[deltas[j]].rightp.x

----------------------------------------------------------------------------
\* The frame of TrapezoidalMap.update.

\* The neighbour slot that held a before the update and holds b after it is
\* unchanged, or held one of the trapezoids old_ts.
SlotKept(a, b, old_ts) == b = a \/ a \in Range(old_ts)

\* What an update of the trapezoids old_ts leaves alone, from the heap before
\* with the map ts to the heap after with the map ts2: the trapezoids that
\* existed before and are in the map afterwards are those of ts outside
\* old_ts, and each of them has kept its sides, its points and its leaf, and
\* its neighbour slots apart from those that held a trapezoid of old_ts.
FrameKept(before, ts, after, ts2, old_ts) ==
    /\ ts2 \cap (1..Len(before.traps)) = ts \ Range(old_ts)
    /\ \A t \in ts \ Range(old_ts) :
           /\ after.traps[t].top = before.traps[t].top
           /\ after.traps[t].bottom = before.traps[t].bottom
           /\ after.traps[t].leftp = before.traps[t].leftp
           /\ after.traps[t].rightp = before.traps[t].rightp
           /\ after.traps[t].leaf = before.traps[t].leaf
           /\ SlotKept(before.traps[t].uln, after.traps[t].uln, old_ts)
           /\ SlotKept(before.traps[t].lln, after.traps[t].lln, old_ts)
           /\ SlotKept(before.traps[t].urn, after.traps[t].urn, old_ts)
           /\ SlotKept(before.traps[t].lrn, after.traps[t].lrn, old_ts)

\* C25: TrapezoidalMap.update(s, deltas) removes from T.trapezoids exactly
\* the trapezoids of deltas and adds only newly created ones; every
\* trapezoid not in deltas stays in T with unchanged top, bottom, leftp,
\* rightp and leaf, and its neighbour slots change only where the previous
\* value was a trapezoid of deltas.
C25_UpdateFrame ==
    (pc = "update" /\ ValidInput) =>
        \A r \in {map_update(Heaps, trapezoids, cur, deltas)} :
            \A d \in {dag_update(r.w, root, cur, deltas, r.new_ts)} :
                FrameKept(Heaps, trapezoids, d.w, r.trapezoids, deltas)

====
